---- MODULE Spec2Model ----
(***************************************************************************)
(* Model of botorch/optim/optimize.py: optimize_acqf (sequential driver    *)
(* and joint restart-batch optimizer) and gen_batch_initial_conditions.    *)
(*                                                                         *)
(* Tensors are records [shape, data].  A tensor of points of shape         *)
(* (..., d) keeps one data element per d-vector (a point is an integer     *)
(* id); a tensor of values keeps one data element per value.  Optional     *)
(* Python values are sequences: None is <<>>, a value v is <<v>>.          *)
(***************************************************************************)
EXTENDS Integers, Sequences, FiniteSets, TLC

\* ---------------------------------------------------------------- bounds
MaxQ == 2
MaxRestarts == 2
MaxRawSamples == 2
MaxBatchLimit == 2
NumPoints == 2

\* ------------------------------------------------------- Python optionals
None == <<>>
Some(v) == <<v>>
IsNone(o) == o = <<>>
Val(o) == o[1]

Min(a, b) == IF a < b THEN a ELSE b
Max(a, b) == IF a > b THEN a ELSE b

RECURSIVE SumSeq(_)
SumSeq(s) == IF s = <<>> THEN 0 ELSE Head(s) + SumSeq(Tail(s))

RECURSIVE Flatten(_)
Flatten(ss) == IF ss = <<>> THEN <<>> ELSE Head(ss) \o Flatten(Tail(ss))

\* ---------------------------------------------------------------- tensors
\* torch.tensor([])
EmptyTensor == [shape |-> <<0>>, data |-> <<>>]

\* number of data elements under one index of the leading axis
RowWidth(t) == IF Len(t.shape) = 3 THEN t.shape[2] ELSE 1

\* Python slice bound normalisation for an axis of length n
SliceBound(i, n) == IF i < 0 THEN Max(i + n, 0) ELSE Min(i, n)

\* t[start_idx:end_idx] along the leading axis
Slice(t, start_idx, end_idx) ==
    LET n == t.shape[1]
        lo == SliceBound(start_idx, n)
        hi == Max(SliceBound(end_idx, n), lo)
        w == RowWidth(t)
    IN [shape |-> <<hi - lo>> \o Tail(t.shape),
        data |-> SubSeq(t.data, lo * w + 1, hi * w)]

\* t[i] for a 0-dim integer index i: the leading axis is dropped
Index(t, i) ==
    LET w == RowWidth(t)
    IN [shape |-> Tail(t.shape), data |-> SubSeq(t.data, i * w + 1, (i + 1) * w)]

\* torch.cat(list) along dim 0
Cat(list) ==
    [shape |-> <<SumSeq([k \in 1..Len(list) |-> list[k].shape[1]])>>
                   \o Tail(list[1].shape),
     data |-> Flatten([k \in 1..Len(list) |-> list[k].data])]

\* torch.cat(list, dim=-2) for tensors of shape (k, d)
CatDimM2(list) ==
    [shape |-> <<SumSeq([k \in 1..Len(list) |-> list[k].shape[1]]), list[1].shape[2]>>,
     data |-> Flatten([k \in 1..Len(list) |-> list[k].data])]

\* torch.stack(list) of 0-dim tensors: a new leading axis
Stack(list) ==
    [shape |-> <<Len(list)>> \o list[1].shape,
     data |-> Flatten([k \in 1..Len(list) |-> list[k].data])]

\* torch.argmax(values.view(-1), dim=0): index (0-based) of the first maximum
\* (ArgmaxLast: the variant that returns the last maximum)
ArgmaxLast(v) ==
    CHOOSE i \in 0..(Len(v.data) - 1) :
        /\ \A j \in 0..(Len(v.data) - 1) : v.data[j + 1] <= v.data[i + 1]
        /\ \A j \in (i + 1)..(Len(v.data) - 1) : v.data[j + 1] < v.data[i + 1]
Argmax(v) ==
    CHOOSE i \in 0..(Len(v.data) - 1) :
        /\ \A j \in 0..(Len(v.data) - 1) : v.data[j + 1] <= v.data[i + 1]
        /\ \A j \in 0..(i - 1) : v.data[j + 1] < v.data[i + 1]

\* ------------------------------------------------------------------ options
\* A dict is a record over the recognised keys; an absent key holds None.
OptionKeys == {"batch_limit", "nonnegative", "seed", "maxiter"}
EmptyDict == [k \in OptionKeys |-> None]
HasKey(dict, k) == dict[k] # None

\* options or {}
OrEmptyDict(options) ==
    IF IsNone(options) \/ Val(options) = EmptyDict THEN EmptyDict ELSE Val(options)

\* options.get(k, default)
Get(dict, k, default) == IF HasKey(dict, k) THEN Val(dict[k]) ELSE default

\* {k: v for k, v in options.items() if k not in ("batch_limit", "nonnegative")}
SolverOptionsKeepNonneg(options) ==
    [k \in OptionKeys |-> IF k \in {"batch_limit"} THEN None ELSE options[k]]
SolverOptions(options) ==
    [k \in OptionKeys |->
        IF k \in {"batch_limit", "nonnegative"} THEN None ELSE options[k]]

\* ------------------------------------------------- external collaborators
Points == 0..(NumPoints - 1)

\* the acquisition scorers considered: constant zero, and one with ties
AcqTabs == { [p \in Points |-> 0], [p \in Points |-> p % 2] }

\* SobolEngine.MAXDIM: the largest dimension the low-discrepancy sampler supports
MAXDIM == 1111

\* the input dimensions d considered (the bounds tensor is 2 x d): a small one,
\* and for the sampler choice the ceiling and the first dimension above it
Dims == {2}
SamplingDims == {2, MAXDIM, MAXDIM + 1}

\* the solver's acquisition value of one restart: the scorer on its points,
\* conditional on the pending points
RowValue(tab, row, X_pending) ==
    Max(0, SumSeq([k \in 1..Len(row) |-> tab[row[k] % NumPoints] + tab[row[k] % NumPoints]])
           - (IF IsNone(X_pending) THEN 0 ELSE Len(Val(X_pending).data)))

\* gen_candidates_scipy: a deterministic solver that optimizes each restart
\* of initial_conditions independently; returns (candidates, values)
gen_candidates_scipy(initial_conditions, acq) ==
    LET b == initial_conditions.shape[1]
        w == RowWidth(initial_conditions)
        cand == [k \in 1..Len(initial_conditions.data) |->
                    (initial_conditions.data[k] + 1) % NumPoints]
    IN [candidates |-> [shape |-> initial_conditions.shape, data |-> cand],
        values |-> [shape |-> <<b>>,
                    data |-> [r \in 1..b |->
                        RowValue(acq.tab, SubSeq(cand, (r - 1) * w + 1, r * w),
                                 acq.X_pending)]]]

\* draw_sobol_samples / torch.rand rescaled: an n x q x d tensor of points
DrawSamples(n, q, d, offset) ==
    [shape |-> <<n, q, d>>, data |-> [k \in 1..(n * q) |-> (offset + k - 1) % NumPoints]]

\* without a seed the draw is random: the first point drawn is one of these
UnseededOffsets == {0, 1}

\* initialize_q_batch / initialize_q_batch_nonneg: n of the rows of X
init_func(X, n) == Slice(X, 0, n)

\* a caller-supplied post_processing_func: tags every point, keeps the shape
post_processing_func(t) ==
    [shape |-> t.shape, data |-> [k \in 1..Len(t.data) |-> t.data[k] + NumPoints]]

\* acq_function.set_X_pending(X)
set_X_pending(acq, X) == [acq EXCEPT !.X_pending = X]

\* -------------------------------------------------------------------- state
VARIABLES
    acq_function,   \* the caller's acquisition function: [X_pending, tab]
    args,           \* the arguments of the caller's optimize_acqf call
    settings,       \* botorch.settings: [debug]
    pc,             \* position of the call
    sq,             \* locals of the sequential path of optimize_acqf
    jt,             \* locals of the running joint optimize_acqf call
    gn,             \* locals of the running gen_batch_initial_conditions call
    ret,            \* value returned by the last completed joint call
    result,         \* value returned to the caller
    err,            \* error raised to the caller
    tr              \* history of the call (what the collaborators were handed)

vars == <<acq_function, args, settings, pc, sq, jt, gn, ret, result, err, tr>>

\* factor, max_factor = 1, 5
max_factor == 5

NoTensor == [shape |-> <<>>, data |-> <<>>]

\* a caller-supplied batch_initial_conditions of the given number of rows
SuppliedConditions(rows, q, d) == DrawSamples(rows, q, d, 0)

\* the pending points a caller may have set: absent, or one point
PendingChoices(d) == {None, Some([shape |-> <<1, d>>, data |-> <<0>>])}

\* the option dicts considered: batch_limit absent or 1..MaxBatchLimit, with or
\* without a seed, and with or without the two keys this layer does not read
OptionDicts ==
    { o \in [batch_limit : {None} \cup {Some(b) : b \in 1..MaxBatchLimit},
             nonnegative : {None, Some(TRUE)},
             seed : {None, Some(0)},
             maxiter : {None, Some(7)}] :
        /\ IsNone(o.nonnegative) = IsNone(o.maxiter)
        /\ IsNone(o.batch_limit) => IsNone(o.nonnegative)
        /\ ~IsNone(o.seed) => ~IsNone(o.nonnegative) \/ IsNone(o.batch_limit) }

OptionChoices == {None} \cup {Some(o) : o \in OptionDicts}

ArgChoices ==
    { a \in [q : 1..MaxQ,
             d : Dims,
             num_restarts : 1..MaxRestarts,
             raw_samples : 1..MaxRawSamples,
             options : OptionChoices,
             post_processing_func : BOOLEAN,
             batch_initial_conditions :
                 {None} \cup {Some(SuppliedConditions(r, q, d)) :
                                 r \in 1..(MaxRestarts + 1), q \in 1..MaxQ, d \in Dims},
             return_best_only : BOOLEAN,
             sequential : BOOLEAN] :
        /\ a.raw_samples >= a.num_restarts
        /\ ~IsNone(a.batch_initial_conditions) =>
               LET t == Val(a.batch_initial_conditions)
               IN /\ t.shape[2] = a.q
                  /\ t.shape[3] = a.d
                  /\ t.shape[1] >= a.num_restarts - 1
                  /\ t.shape[1] <= a.num_restarts + 1
                  /\ a.sequential => t.shape[1] = a.num_restarts }

sq0 == [base_X_pending |-> None, candidate_list |-> <<>>, acq_value_list |-> <<>>,
        candidates |-> EmptyTensor, i |-> 0]

jt0 == [q |-> 0, options |-> EmptyDict, batch_initial_conditions |-> None,
        return_best_only |-> TRUE, nested |-> FALSE, batch_limit |-> 0,
        start_idx |-> 0, batch_candidates_list |-> <<>>,
        batch_acq_values_list |-> <<>>]

gn0 == [q |-> 0, seed |-> None, batch_limit |-> None, factor |-> 0,
        X_rnd |-> NoTensor, start_idx |-> 0, batch_initial_conditions |-> None]

tr0(X_pending, options) ==
    [X_pending_entry |-> X_pending, options_entry |-> options, solver_calls |-> <<>>, scorer_calls |-> <<>>,
     attempts |-> <<>>, warnings |-> <<>>, gen_exit |-> "none",
     last_selection |-> None, last_degenerate |-> FALSE, joint_calls |-> <<>>, joint_rets |-> <<>>,
     scored |-> FALSE]

\* the state at the call of optimize_acqf, for calls drawn from A, acquisition
\* functions that are analytic or not as `analytic` allows, and the debug
\* setting as `debug` allows
InitOver(A, analytic, debug) ==
    /\ acq_function \in [X_pending : UNION {PendingChoices(a.d) : a \in A},
                          tab : AcqTabs,
                          analytic : analytic]
    /\ args \in A
    /\ settings \in [debug : debug]
    /\ ~IsNone(acq_function.X_pending) => Val(acq_function.X_pending).shape[2] = args.d
    /\ acq_function.analytic =>
           args.q = 1 /\ ~args.sequential /\ IsNone(acq_function.X_pending)
    /\ pc = "call"
    /\ sq = sq0
    /\ jt = jt0
    /\ gn = gn0
    /\ ret = None
    /\ result = None
    /\ err = None
    /\ tr = tr0(acq_function.X_pending, args.options)

Init == InitOver(ArgChoices, {FALSE}, {FALSE})

\* calls for the choice of the sampler: every dimension of SamplingDims, one
\* restart, one raw sample
SamplingArgChoices ==
    { a \in [q : 1..MaxQ,
             d : SamplingDims,
             num_restarts : {1},
             raw_samples : {1},
             options : {None, Some([EmptyDict EXCEPT !.seed = Some(0)])},
             post_processing_func : {FALSE},
             batch_initial_conditions :
                 {None} \cup {Some(SuppliedConditions(1, q, d)) :
                                 q \in 1..MaxQ, d \in SamplingDims},
             return_best_only : BOOLEAN,
             sequential : BOOLEAN] :
        ~IsNone(a.batch_initial_conditions) =>
            LET t == Val(a.batch_initial_conditions)
            IN t.shape[2] = a.q /\ t.shape[3] = a.d }

InitSampling == InitOver(SamplingArgChoices, BOOLEAN, BOOLEAN)

\* calls for the restart loop under any integer batch_limit: a batch_limit below
\* 1 only with supplied initial conditions in joint mode
AnyLimitDicts ==
    { [EmptyDict EXCEPT !.batch_limit = Some(b)] : b \in (0 - 1)..MaxBatchLimit }

AnyLimitArgChoices ==
    { a \in [q : {1},
             d : Dims,
             num_restarts : 1..MaxRestarts,
             raw_samples : {MaxRestarts},
             options : {None} \cup {Some(o) : o \in AnyLimitDicts},
             post_processing_func : {FALSE},
             batch_initial_conditions :
                 {None} \cup {Some(SuppliedConditions(r, 1, d)) :
                                 r \in 1..(MaxRestarts + 1), d \in Dims},
             return_best_only : BOOLEAN,
             sequential : BOOLEAN] :
        /\ ~IsNone(a.batch_initial_conditions) =>
               LET t == Val(a.batch_initial_conditions)
               IN /\ t.shape[3] = a.d
                  /\ t.shape[1] >= a.num_restarts - 1
                  /\ t.shape[1] <= a.num_restarts + 1
        /\ (~IsNone(a.options) /\ Val(Val(a.options).batch_limit) < 1) =>
               ~IsNone(a.batch_initial_conditions) /\ ~a.sequential }

InitAnyLimit == InitOver(AnyLimitArgChoices, {FALSE}, {FALSE})

\* --------------------------------------------------------- optimize_acqf
\* if sequential: if not return_best_only: raise NotImplementedError
InvalidConfigurationNever(a) == FALSE
InvalidConfiguration(a) == a.sequential /\ ~a.return_best_only

\* the locals of a joint call before its restart loop
JointFrame(q, options, batch_initial_conditions, return_best_only, nested) ==
    [jt0 EXCEPT !.q = q, !.options = OrEmptyDict(options),
                !.batch_initial_conditions = batch_initial_conditions,
                !.return_best_only = return_best_only, !.nested = nested]

\* batch_limit = options.get("batch_limit", num_restarts); start_idx = 0
RestartLoopInit(j, batch_initial_conditions) ==
    [j EXCEPT !.batch_initial_conditions = Some(batch_initial_conditions),
              !.batch_limit = Get(j.options, "batch_limit", args.num_restarts),
              !.start_idx = 0,
              !.batch_candidates_list = <<>>,
              !.batch_acq_values_list = <<>>]

\* if sequential: ... (the greedy path) else the joint path
\* (SequentialPathAlways: the variant that takes the greedy path for every call)
SequentialPathAlways(a) == TRUE
SequentialPath(a) == a.sequential

\* entry of the caller's call
optimize_acqf ==
    /\ pc = "call"
    /\ IF SequentialPath(args)
       THEN IF InvalidConfiguration(args)
            THEN /\ pc' = "raised"
                 /\ err' = Some("NotImplementedError")
                 /\ UNCHANGED sq
            ELSE /\ pc' = "seq_for"
                 /\ sq' = [sq0 EXCEPT !.base_X_pending = acq_function.X_pending]
                 /\ UNCHANGED err
       ELSE /\ pc' = "joint"
            /\ UNCHANGED <<sq, err>>
    /\ jt' = IF SequentialPath(args) THEN jt
             ELSE JointFrame(args.q, args.options, args.batch_initial_conditions,
                             args.return_best_only, FALSE)
    /\ UNCHANGED <<acq_function, args, settings, gn, ret, result, tr>>

\* for _ in range(q): candidate, acq_value = optimize_acqf(q=1, ...,
\* options=options or {}, batch_initial_conditions=None, return_best_only=True,
\* sequential=False)
\* (SequentialCallFrameKeepsConditions: the variant that hands the caller's
\* initial conditions to the q=1 call)
SequentialCallFrameKeepsConditions(a) ==
    JointFrame(1, Some(OrEmptyDict(a.options)), a.batch_initial_conditions, TRUE, TRUE)
SequentialCallFrame(a) ==
    JointFrame(1, Some(OrEmptyDict(a.options)), None, TRUE, TRUE)

sequential_call ==
    /\ pc = "seq_for"
    /\ sq.i < args.q
    /\ jt' = SequentialCallFrame(args)
    /\ pc' = "joint"
    /\ UNCHANGED <<acq_function, args, settings, sq, gn, ret, result, err, tr>>

\* the body of the for loop after the q=1 call has returned
\* (SequentialPendingDropsBase: the variant that forgets the saved pending points)
SequentialPendingDropsBase(base_X_pending, candidates) == Some(candidates)
SequentialPending(base_X_pending, candidates) ==
    IF ~IsNone(base_X_pending)
    THEN Some(CatDimM2(<<Val(base_X_pending), candidates>>))
    ELSE Some(candidates)

sequential_append ==
    /\ pc = "seq_append"
    /\ LET candidate_list == Append(sq.candidate_list, Val(ret).candidates)
           acq_value_list == Append(sq.acq_value_list, Val(ret).values)
           candidates == CatDimM2(candidate_list)
       IN /\ sq' = [sq EXCEPT !.candidate_list = candidate_list,
                               !.acq_value_list = acq_value_list,
                               !.candidates = candidates,
                               !.i = @ + 1]
          /\ acq_function' = set_X_pending(acq_function,
                                  SequentialPending(sq.base_X_pending, candidates))
    /\ pc' = "seq_for"
    /\ UNCHANGED <<args, settings, jt, gn, ret, result, err, tr>>

\* acq_function.set_X_pending(base_X_pending) after the loop
ResetKeepsPending(acq, base_X_pending) == acq
Reset(acq, base_X_pending) == set_X_pending(acq, base_X_pending)

\* return candidates, torch.stack(acq_value_list)
\* (SequentialResultUnstacked: the variant that returns the last value as it is)
SequentialResultUnstacked(candidates, acq_value_list) ==
    [candidates |-> candidates, values |-> acq_value_list[Len(acq_value_list)]]
SequentialResult(candidates, acq_value_list) ==
    [candidates |-> candidates, values |-> Stack(acq_value_list)]

sequential_return ==
    /\ pc = "seq_for"
    /\ ~(sq.i < args.q)
    /\ acq_function' = Reset(acq_function, sq.base_X_pending)
    /\ result' = Some(SequentialResult(sq.candidates, sq.acq_value_list))
    /\ pc' = "done"
    /\ UNCHANGED <<args, settings, sq, jt, gn, ret, err, tr>>

\* ------------------------------------------ gen_batch_initial_conditions
\* seed = options.get("seed"); batch_limit = options.get("batch_limit");
\* factor = 1; q = 1 if q is None else q
GenFrame(q, options) ==
    [gn0 EXCEPT !.q = IF IsNone(q) THEN 1 ELSE Val(q), !.seed = options["seed"],
                !.batch_limit = options["batch_limit"], !.factor = 1]

\* q=None if isinstance(acq_function, AnalyticAcquisitionFunction) else q
GenQ(acq, q) == IF acq.analytic THEN None ELSE Some(q)

\* if dim > SobolEngine.MAXDIM and settings.debug.on(): warnings.warn(...)
SamplingWarned(dim, debug) == dim > MAXDIM /\ debug

\* if dim <= SobolEngine.MAXDIM: draw_sobol_samples(...) else: torch.rand(...)
SamplerBelowCeiling(dim) == IF dim < MAXDIM THEN "draw_sobol_samples" ELSE "torch.rand"
Sampler(dim) == IF dim <= MAXDIM THEN "draw_sobol_samples" ELSE "torch.rand"

\* options = options or {}; if batch_initial_conditions is None: ...
joint_entry ==
    /\ pc = "joint"
    /\ IF IsNone(jt.batch_initial_conditions)
       THEN /\ gn' = GenFrame(GenQ(acq_function, jt.q), jt.options)
            /\ pc' = "gen_while"
            /\ tr' = [tr EXCEPT !.attempts = <<>>, !.scorer_calls = <<>>,
                                !.solver_calls = <<>>,
                                !.warnings =
                                    IF SamplingWarned(args.d * gn'.q, settings.debug)
                                    THEN <<"SamplingWarning">> ELSE <<>>,
                                !.gen_exit = "none", !.last_selection = None,
                                !.last_degenerate = FALSE,
                                !.joint_calls = Append(@, jt)]
            /\ UNCHANGED jt
       ELSE /\ jt' = RestartLoopInit(jt, Val(jt.batch_initial_conditions))
            /\ pc' = "solve_while"
            /\ tr' = [tr EXCEPT !.solver_calls = <<>>, !.joint_calls = Append(@, jt)]
            /\ UNCHANGED gn
    /\ UNCHANGED <<acq_function, args, settings, sq, ret, result, err>>

\* while factor < max_factor
RetryAllowedInclusive(factor) == factor <= max_factor
RetryAllowed(factor) == factor < max_factor

\* n = raw_samples * factor; X_rnd = draw...(n, q, seed);
\* if batch_limit is None: batch_limit = X_rnd.shape[0]; start_idx = 0
gen_sample ==
    /\ pc = "gen_while"
    /\ RetryAllowed(gn.factor)
    /\ \E offset \in (IF IsNone(gn.seed) THEN UnseededOffsets ELSE {Val(gn.seed)}) :
          LET n == args.raw_samples * gn.factor
              X_rnd == DrawSamples(n, gn.q, args.d, offset)
          IN /\ gn' = [gn EXCEPT !.X_rnd = X_rnd,
                                  !.batch_limit =
                                      IF IsNone(@) THEN Some(X_rnd.shape[1]) ELSE @,
                                  !.start_idx = 0]
             /\ tr' = [tr EXCEPT !.attempts =
                           Append(@, [n |-> n, factor |-> gn.factor, seed |-> gn.seed,
                                      sampler |-> Sampler(args.d * gn.q)])]
    /\ pc' = "gen_score"
    /\ UNCHANGED <<acq_function, args, settings, sq, jt, ret, result, err>>

\* Y_rnd_curr = acq_function(X_rnd[start_idx:end_idx]); start_idx += batch_limit
gen_score ==
    /\ pc = "gen_score"
    /\ gn.start_idx < gn.X_rnd.shape[1]
    /\ LET end_idx == Min(gn.start_idx + Val(gn.batch_limit), gn.X_rnd.shape[1])
           X == Slice(gn.X_rnd, gn.start_idx, end_idx)
       IN \/ /\ tr' = [tr EXCEPT !.scorer_calls =
                           Append(@, [size |-> X.shape[1], n |-> gn.X_rnd.shape[1],
                                      start_idx |-> gn.start_idx,
                                      X_pending |-> acq_function.X_pending]),
                                !.scored = TRUE]
             /\ gn' = [gn EXCEPT !.start_idx = @ + Val(gn.batch_limit)]
             /\ pc' = "gen_score"
             /\ UNCHANGED err
          \/ /\ pc' = "raised"
             /\ err' = Some("ScorerError")
             /\ UNCHANGED <<gn, tr>>
    /\ UNCHANGED <<acq_function, args, settings, sq, jt, ret, result>>

\* if seed is not None: seed += 1
NextSeedSame(seed) == seed
NextSeed(seed) == IF ~IsNone(seed) THEN Some(Val(seed) + 1) ELSE seed

\* if not any(issubclass(w.category, BadInitialCandidatesWarning) for w in ws):
\*     return batch_initial_conditions
\* (ReturnsSelectionNever: the variant that always goes on to the next attempt)
ReturnsSelectionNever(degenerate) == FALSE
ReturnsSelection(degenerate) == ~degenerate

\* batch_initial_conditions = init_func(X=X_rnd, Y=Y_rnd, n=num_restarts);
\* return unless a BadInitialCandidatesWarning was recorded; else
\* factor += 1 and seed += 1
gen_select ==
    /\ pc = "gen_score"
    /\ ~(gn.start_idx < gn.X_rnd.shape[1])
    /\ LET batch_initial_conditions == init_func(gn.X_rnd, args.num_restarts)
           logged(degenerate) ==
               [tr EXCEPT !.last_selection = Some(batch_initial_conditions),
                          !.last_degenerate = degenerate]
       IN \E degenerate \in BOOLEAN :
            IF ReturnsSelection(degenerate)
            THEN /\ jt' = RestartLoopInit(jt, batch_initial_conditions)
                 /\ gn' = gn0
                 /\ tr' = [logged(degenerate) EXCEPT !.gen_exit = "selected",
                                                     !.attempts = <<>>,
                                                     !.scorer_calls = <<>>]
                 /\ pc' = "solve_while"
            ELSE /\ gn' = [gn EXCEPT !.batch_initial_conditions =
                                         Some(batch_initial_conditions),
                                     !.factor = IF @ < max_factor THEN @ + 1 ELSE @,
                                     !.seed = IF gn.factor < max_factor
                                              THEN NextSeed(gn.seed) ELSE gn.seed]
                 /\ tr' = logged(degenerate)
                 /\ pc' = "gen_while"
                 /\ UNCHANGED jt
    /\ UNCHANGED <<acq_function, args, settings, sq, ret, result, err>>

\* warnings.warn("... selected randomly", BadInitialCandidatesWarning);
\* return batch_initial_conditions
gen_exhausted ==
    /\ pc = "gen_while"
    /\ ~RetryAllowed(gn.factor)
    /\ jt' = RestartLoopInit(jt, Val(gn.batch_initial_conditions))
    /\ gn' = gn0
    /\ tr' = [tr EXCEPT !.warnings = Append(@, "BadInitialCandidatesWarning"),
                        !.gen_exit = "exhausted", !.scorer_calls = <<>>]
    /\ pc' = "solve_while"
    /\ UNCHANGED <<acq_function, args, settings, sq, ret, result, err>>

\* ------------------------------------------- optimize_acqf, joint path
\* end_idx = min(start_idx + batch_limit, num_restarts)
EndIdxUnclamped(start_idx, batch_limit, num_restarts) == start_idx + batch_limit
EndIdx(start_idx, batch_limit, num_restarts) ==
    Min(start_idx + batch_limit, num_restarts)

\* one iteration of `while start_idx < num_restarts`; the run is followed for
\* at most MaxRestarts + 2 iterations of one loop, one more than any loop that
\* advances needs
solve_batch ==
    /\ pc = "solve_while"
    /\ jt.start_idx < args.num_restarts
    /\ Len(tr.solver_calls) <= MaxRestarts + 1
    /\ LET end_idx == EndIdx(jt.start_idx, jt.batch_limit, args.num_restarts)
           initial_conditions ==
               Slice(Val(jt.batch_initial_conditions), jt.start_idx, end_idx)
           options == SolverOptions(jt.options)
           out == gen_candidates_scipy(initial_conditions, acq_function)
       IN \/ /\ jt' = [jt EXCEPT !.batch_candidates_list = Append(@, out.candidates),
                                  !.batch_acq_values_list = Append(@, out.values),
                                  !.start_idx = @ + jt.batch_limit]
             /\ tr' = [tr EXCEPT !.solver_calls =
                           Append(@, [options |-> options,
                                      start_idx |-> jt.start_idx,
                                      end_idx |-> end_idx,
                                      initial_conditions |-> initial_conditions,
                                      X_pending |-> acq_function.X_pending])]
             /\ pc' = "solve_while"
             /\ UNCHANGED err
          \/ /\ pc' = "raised"
             /\ err' = Some("SolverError")
             /\ UNCHANGED <<jt, tr>>
    /\ UNCHANGED <<acq_function, args, settings, sq, gn, ret, result>>

\* if return_best_only: best = argmax(...); return candidates[best], values[best]
\* else: return batch_candidates, batch_acq_values
BestOnlyKeepAxis(batch_candidates, batch_acq_values, return_best_only) ==
    IF return_best_only
    THEN LET best == Argmax(batch_acq_values)
         IN [candidates |-> Slice(batch_candidates, best, best + 1),
             values |-> Index(batch_acq_values, best)]
    ELSE [candidates |-> batch_candidates, values |-> batch_acq_values]
BestOnly(batch_candidates, batch_acq_values, return_best_only) ==
    IF return_best_only
    THEN LET best == Argmax(batch_acq_values)
         IN [candidates |-> Index(batch_candidates, best),
             values |-> Index(batch_acq_values, best)]
    ELSE [candidates |-> batch_candidates, values |-> batch_acq_values]

\* batch_candidates = torch.cat(batch_candidates_list), post-processed if a
\* post_processing_func was given; batch_acq_values = torch.cat(...)
JointOutput(j) ==
    LET batch_candidates == Cat(j.batch_candidates_list)
        batch_acq_values == Cat(j.batch_acq_values_list)
    IN BestOnly(IF args.post_processing_func
                THEN post_processing_func(batch_candidates)
                ELSE batch_candidates,
                batch_acq_values, j.return_best_only)

\* the restart loop has ended: the joint call returns
joint_return ==
    /\ pc = "solve_while"
    /\ ~(jt.start_idx < args.num_restarts)
    /\ ret' = Some(JointOutput(jt))
    /\ IF jt.nested
       THEN /\ pc' = "seq_append"
            /\ UNCHANGED result
       ELSE /\ pc' = "done"
            /\ result' = Some(JointOutput(jt))
    /\ tr' = [tr EXCEPT !.warnings = <<>>, !.gen_exit = "none", !.last_selection = None,
                        !.last_degenerate = FALSE, !.attempts = <<>>,
                        !.joint_rets = Append(@, JointOutput(jt))]
    /\ UNCHANGED <<acq_function, args, settings, sq, jt, gn, err>>

Next ==
    \/ optimize_acqf
    \/ sequential_call
    \/ sequential_append
    \/ sequential_return
    \/ joint_entry
    \/ gen_sample
    \/ gen_score
    \/ gen_select
    \/ gen_exhausted
    \/ solve_batch
    \/ joint_return

Spec == Init /\ [][Next]_vars

\* the same program over the calls that exercise the choice of the sampler
SpecSampling == InitSampling /\ [][Next]_vars

\* the same program over the calls with any integer batch_limit
SpecAnyLimit == InitAnyLimit /\ [][Next]_vars

\* ------------------------------------------------------------------ claims
InGen == pc \in {"gen_while", "gen_score"}

\* C1: in sequential mode, when the scorer or the solver raises during an
\* iteration of the q-step loop, the pending points of the acquisition
\* function are back at their value at call entry when the error reaches
\* the caller.
C1_PendingRestoredOnError ==
    (pc = "raised" /\ args.sequential /\ args.return_best_only)
        => acq_function.X_pending = tr.X_pending_entry

\* C2: a sequential-mode call that returns normally leaves the pending
\* points of the acquisition function as they were at call entry.
C2_PendingRestoredOnReturn ==
    (pc = "done" /\ args.sequential) => acq_function.X_pending = tr.X_pending_entry

\* a sequential call over q >= 2 steps has returned; the pending points were set
\* at entry and overwritten after each step
C2_Witness ==
    /\ pc = "done"
    /\ args.sequential
    /\ sq.i >= 2
    /\ ~IsNone(tr.X_pending_entry)
    /\ SequentialPending(sq.base_X_pending, sq.candidates) # tr.X_pending_entry

\* C3: return_best_only=False with sequential=True fails with a
\* not-supported error before any work: no scorer evaluation, no
\* initialization, no solver call, pending points untouched.
C3_InvalidConfigurationFailsFast ==
    (args.sequential /\ ~args.return_best_only) =>
        /\ pc \in {"call", "raised"}
        /\ pc = "raised" => err = Some("NotImplementedError")
        /\ ~tr.scored
        /\ tr.attempts = <<>>
        /\ tr.solver_calls = <<>>
        /\ tr.joint_calls = <<>>
        /\ result = None
        /\ acq_function.X_pending = tr.X_pending_entry

C3_Witness ==
    /\ args.sequential
    /\ ~args.return_best_only
    /\ pc = "raised"
    /\ err = Some("NotImplementedError")
    /\ ~IsNone(args.batch_initial_conditions)
    /\ ~IsNone(args.options)

\* every value the solver returned in the running joint call, in restart order
SolverValues == Flatten([k \in 1..Len(jt.batch_acq_values_list) |->
                            jt.batch_acq_values_list[k].data])

\* every candidate point the solver returned, post-processed, in restart order
SolverCandidates ==
    LET raw == Flatten([k \in 1..Len(jt.batch_candidates_list) |->
                           jt.batch_candidates_list[k].data])
    IN [k \in 1..Len(raw) |->
           IF args.post_processing_func THEN raw[k] + NumPoints ELSE raw[k]]

\* the joint call that has just returned was a best-only one
BestOnlyReturned ==
    \/ pc = "done" /\ ~args.sequential /\ args.return_best_only
    \/ pc = "seq_append"

\* C4: a joint call with return_best_only=True returns the maximum of the
\* solver's values over all restarts of all sub-batches, with the
\* post-processed candidate of the first restart attaining it.
C4_BestIsFirstMaximum ==
    BestOnlyReturned =>
        \E i \in 1..Len(SolverValues) :
            /\ \A j \in 1..Len(SolverValues) : SolverValues[j] <= SolverValues[i]
            /\ \A j \in 1..(i - 1) : SolverValues[j] < SolverValues[i]
            /\ Val(ret).values.data = <<SolverValues[i]>>
            /\ Val(ret).candidates.data =
                   SubSeq(SolverCandidates, (i - 1) * jt.q + 1, i * jt.q)

\* the maximum is attained by two restarts of different sub-batches
C4_Witness ==
    /\ pc = "done"
    /\ ~args.sequential
    /\ args.return_best_only
    /\ args.post_processing_func
    /\ Len(jt.batch_acq_values_list) >= 2
    /\ Len(SolverValues) >= 2
    /\ SolverValues[1] = SolverValues[2]
    /\ SolverValues[1] > 0
    /\ \A j \in 1..Len(SolverValues) : SolverValues[j] <= SolverValues[1]

\* C5: with return_best_only=False the joint path returns, for every
\* batch_limit, what a single solver call over the first num_restarts
\* initial conditions returns (the batch_limit = num_restarts result).
C5_BatchLimitInvariant ==
    (pc = "done" /\ ~args.sequential /\ ~args.return_best_only) =>
        LET one == gen_candidates_scipy(
                       Slice(Val(jt.batch_initial_conditions), 0, args.num_restarts),
                       acq_function)
        IN /\ Val(result).values = one.values
           /\ Val(result).candidates =
                  IF args.post_processing_func
                  THEN post_processing_func(one.candidates)
                  ELSE one.candidates

\* batch_limit = 1 over at least two restarts: one solver call per restart
C5_Witness ==
    /\ pc = "done"
    /\ ~args.sequential
    /\ ~args.return_best_only
    /\ jt.batch_limit = 1
    /\ Len(tr.solver_calls) = args.num_restarts
    /\ args.num_restarts >= 2
    /\ Len(Val(result).values.data) >= 2
    /\ Val(result).values.data[1] # Val(result).values.data[2]

\* C6 (as claimed): a q=1 sequential call returns the same candidate and the
\* same value, contents and shape, as the q=1 joint best-only call.
C6_SequentialEqualsJoint ==
    (pc = "done" /\ args.sequential /\ args.q = 1) => Val(result) = Val(ret)

\* C6 (amended): the q=1 sequential call makes one joint call with q=1, the
\* caller's options, no initial conditions and best-only selection, on the
\* pending points of call entry; it returns that call's candidate (same
\* contents and shape) and that call's value, the value with shape (1,)
\* where the joint call returns a 0-dim tensor.
C6_SequentialEqualsJointUpToValueShape ==
    (pc = "done" /\ args.sequential /\ args.q = 1) =>
        /\ tr.joint_calls =
               << [JointFrame(1, args.options, None, TRUE, FALSE) EXCEPT !.nested = TRUE] >>
        /\ \A k \in 1..Len(tr.solver_calls) :
               tr.solver_calls[k].X_pending = tr.X_pending_entry
        /\ Val(result).candidates = Val(ret).candidates
        /\ Val(result).values.data = Val(ret).values.data
        /\ Val(result).values.shape = <<1>>
        /\ Val(ret).values.shape = <<>>

C6_Witness ==
    /\ pc = "done"
    /\ args.sequential
    /\ args.q = 1
    /\ ~IsNone(tr.X_pending_entry)
    /\ ~IsNone(args.options)
    /\ Val(result).values.data[1] > 0

\* the initial conditions of the running joint call have a row per restart
RowPerRestart == Val(jt.batch_initial_conditions).shape[1] >= args.num_restarts

\* C7 (as claimed): in joint mode the returned candidates have shape
\* (1, q, d) when best-only and (num_restarts, q, d) otherwise.
C7_JointShape ==
    (pc = "done" /\ ~args.sequential /\ RowPerRestart) =>
        Val(result).candidates.shape =
            IF args.return_best_only
            THEN <<1, args.q, args.d>>
            ELSE <<args.num_restarts, args.q, args.d>>

\* C7 (amended): in joint mode the returned candidates have shape (q, d),
\* without a restart axis, when best-only, and (num_restarts, q, d) otherwise.
C7_JointShapeNoRestartAxis ==
    (pc = "done" /\ ~args.sequential /\ RowPerRestart) =>
        Val(result).candidates.shape =
            IF args.return_best_only
            THEN <<args.q, args.d>>
            ELSE <<args.num_restarts, args.q, args.d>>

C7_Witness ==
    /\ pc = "done"
    /\ ~args.sequential
    /\ RowPerRestart
    /\ args.return_best_only
    /\ args.q >= 2
    /\ args.num_restarts >= 2
    /\ Val(result).candidates.shape = <<args.q, args.d>>

\* a measure of the work left in gen_batch_initial_conditions
AttemptBudget == MaxRawSamples * max_factor + 2
GenRank ==
    IF pc = "gen_while"
    THEN (max_factor + 1 - gn.factor) * AttemptBudget
    ELSE (max_factor + 1 - gn.factor) * AttemptBudget
             - 1 - Min(gn.start_idx, gn.X_rnd.shape[1])

C8_State ==
    /\ InGen => Len(tr.attempts) <= max_factor /\ GenRank >= 0
    /\ tr.gen_exit = "selected" => ~tr.last_degenerate
    /\ tr.gen_exit = "exhausted" =>
           /\ tr.last_degenerate
           /\ Len(tr.warnings) >= 1
           /\ tr.warnings[Len(tr.warnings)] = "BadInitialCandidatesWarning"
           /\ jt.batch_initial_conditions = tr.last_selection
           /\ pc = "raised" => err = Some("SolverError")

C8_Step == (InGen /\ InGen') => GenRank' < GenRank

\* C8: when every attempt is reported degenerate, gen_batch_initial_conditions
\* ends after a bounded number of attempts without raising: it emits the
\* 'selected randomly' diagnostic and returns the last attempt's selection.
C8_DegenerateExhaustionIsSoft == []C8_State /\ [][C8_Step]_vars

C8_Witness ==
    /\ tr.gen_exit = "exhausted"
    /\ pc = "solve_while"
    /\ acq_function.tab = [p \in Points |-> 0]
    /\ Len(tr.attempts) >= 2

\* C9: when every attempt is reported degenerate, exactly 5 attempts are made,
\* with sample-count multipliers 1, 2, 3, 4, 5, before the exhaustion
\* diagnostic.
C9_FiveAttempts ==
    tr.gen_exit = "exhausted" =>
        /\ Len(tr.attempts) = 5
        /\ \A k \in 1..Len(tr.attempts) :
               /\ tr.attempts[k].factor = k
               /\ tr.attempts[k].n = args.raw_samples * k

\* C10: every solver call gets options without `batch_limit` and
\* `nonnegative`, with every other key of the caller's options unchanged, and
\* the caller's options are not modified.
C10_SolverOptionsStripped ==
    /\ args.options = tr.options_entry
    /\ \A c \in 1..Len(tr.solver_calls) :
           \A k \in OptionKeys :
               tr.solver_calls[c].options[k] =
                   IF k \in {"batch_limit", "nonnegative"}
                   THEN None
                   ELSE IF IsNone(tr.options_entry) THEN None
                        ELSE Val(tr.options_entry)[k]

\* a q=1 sub-call of the sequential path has called the solver, the caller's
\* options holding both stripped keys and one that is forwarded
C10_Witness ==
    /\ args.sequential
    /\ Len(tr.solver_calls) >= 1
    /\ sq.i >= 1
    /\ ~IsNone(args.options)
    /\ HasKey(Val(args.options), "batch_limit")
    /\ HasKey(Val(args.options), "nonnegative")
    /\ tr.solver_calls[1].options["maxiter"] = Some(7)

\* the dimension the samples of the running generator call are drawn from
SampleDim == args.d * (IF acq_function.analytic THEN 1 ELSE jt.q)

\* the sampler every attempt so far has used is the one the dimension calls for
SamplerFollowsDim ==
    \A k \in 1..Len(tr.attempts) :
        tr.attempts[k].sampler =
            IF SampleDim > MAXDIM THEN "torch.rand" ELSE "draw_sobol_samples"

SamplingDiagnosed == \E k \in 1..Len(tr.warnings) : tr.warnings[k] = "SamplingWarning"

\* the only error that leaves the generator is one the scorer raised
GenRaisesOnlyScorerError == (InGen /\ pc' = "raised") => err' = Some("ScorerError")

\* C11 as stated: whenever d x q (q=None counted as 1) exceeds the sampler
\* ceiling, the generator emits the sampling diagnostic and draws every attempt
\* with the uniform sampler; at or below the ceiling it draws with the
\* low-discrepancy sampler and emits no diagnostic; it never raises.
C11_DiagnosticWheneverAboveCeiling ==
    InGen =>
        /\ SamplerFollowsDim
        /\ SamplingDiagnosed <=> SampleDim > MAXDIM

C11_State ==
    InGen =>
        /\ gn.q = (IF acq_function.analytic THEN 1 ELSE jt.q)
        /\ SamplerFollowsDim
        /\ SamplingDiagnosed <=> (SampleDim > MAXDIM /\ settings.debug)

\* C11: whenever d x q (q=None counted as 1) exceeds the sampler ceiling, the
\* generator draws every attempt with the uniform sampler, and emits the
\* sampling diagnostic exactly when the debug setting is on; at or below the
\* ceiling it draws with the low-discrepancy sampler and emits no diagnostic;
\* the choice of the sampler raises nothing.
C11_DiagnosticOnlyInDebug == []C11_State /\ [][GenRaisesOnlyScorerError]_vars

\* an analytic acquisition function (q=None) one dimension above the ceiling,
\* debug on: the diagnostic was emitted and two attempts were drawn uniformly
C11_Witness ==
    /\ InGen
    /\ acq_function.analytic
    /\ args.d = MAXDIM + 1
    /\ settings.debug
    /\ SamplingDiagnosed
    /\ Len(tr.attempts) >= 2
    /\ tr.attempts[2].sampler = "torch.rand"

\* a q=1 joint solve of the sequential loop is running
InSequentialSolve ==
    /\ args.sequential
    /\ jt.nested
    /\ pc \in {"joint", "gen_while", "gen_score", "solve_while"}

\* the points of an optional tensor of points
PendingData(X) == IF IsNone(X) THEN <<>> ELSE Val(X).data

\* the candidates the finished q=1 solves returned, in order
FoundSoFar == [k \in 1..sq.i |-> sq.candidate_list[k].data[1]]

\* C12: in sequential mode, when the i-th q=1 joint solve starts (and while it
\* runs), the pending points are the value saved at entry followed by the i-1
\* candidates found so far, in the order found.
C12_PendingIsEntryThenCandidates ==
    InSequentialSolve =>
        /\ Len(sq.candidate_list) = sq.i
        /\ sq.base_X_pending = tr.X_pending_entry
        /\ PendingData(acq_function.X_pending) =
               PendingData(tr.X_pending_entry) \o FoundSoFar
        /\ sq.i = 0 => acq_function.X_pending = tr.X_pending_entry
        /\ sq.i > 0 =>
               /\ ~IsNone(acq_function.X_pending)
               /\ Val(acq_function.X_pending).shape =
                      <<Len(PendingData(tr.X_pending_entry)) + sq.i, args.d>>
        /\ pc # "joint" =>
               /\ \A c \in 1..Len(tr.solver_calls) :
                      tr.solver_calls[c].X_pending = acq_function.X_pending
               /\ \A c \in 1..Len(tr.scorer_calls) :
                      tr.scorer_calls[c].X_pending = acq_function.X_pending

\* the second q=1 solve is at its solver, pending points were set at entry
C12_Witness ==
    /\ InSequentialSolve
    /\ sq.i >= 1
    /\ ~IsNone(tr.X_pending_entry)
    /\ pc = "solve_while"
    /\ Len(tr.solver_calls) >= 1
    /\ Len(PendingData(acq_function.X_pending)) >= 2

\* C13: a sequential call with q >= 1 performs exactly q joint solves, each with
\* q=1, return_best_only=True, not sequential, and initial conditions generated
\* afresh (the caller's batch_initial_conditions are never used); it returns q
\* candidates and q values, the k-th being those of the k-th solve.
C13_SequentialIsQSolves ==
    (args.sequential /\ args.return_best_only) =>
        /\ Len(tr.joint_calls) <= args.q
        /\ \A k \in 1..Len(tr.joint_calls) :
               /\ tr.joint_calls[k].q = 1
               /\ tr.joint_calls[k].return_best_only
               /\ tr.joint_calls[k].nested
               /\ IsNone(tr.joint_calls[k].batch_initial_conditions)
        /\ pc \in {"gen_while", "gen_score", "solve_while"} =>
               Len(tr.joint_calls) = sq.i + 1 /\ Len(tr.joint_rets) = sq.i
        /\ pc \in {"seq_for", "joint"} =>
               Len(tr.joint_calls) = sq.i /\ Len(tr.joint_rets) = sq.i
        /\ pc = "done" =>
               /\ Len(tr.joint_calls) = args.q
               /\ Len(tr.joint_rets) = args.q
               /\ Val(result).candidates.shape = <<args.q, args.d>>
               /\ Val(result).values.shape = <<args.q>>
               /\ \A k \in 1..args.q :
                      /\ tr.joint_rets[k].candidates.shape = <<1, args.d>>
                      /\ Val(result).candidates.data[k] =
                             tr.joint_rets[k].candidates.data[1]
                      /\ Val(result).values.data[k] = tr.joint_rets[k].values.data[1]

\* a sequential call with q >= 2 and caller-supplied initial conditions has
\* returned two different candidates
C13_Witness ==
    /\ args.sequential
    /\ pc = "done"
    /\ args.q >= 2
    /\ ~IsNone(args.batch_initial_conditions)
    /\ Val(result).candidates.data[1] # Val(result).candidates.data[2]

\* the seed the caller's options carry, if any
SeedEntry == IF IsNone(tr.options_entry) THEN None ELSE Val(tr.options_entry).seed

\* C14: within one call of the generator the k-th sampling attempt draws
\* raw_samples x k candidates and, when a seed s was given, uses seed s + (k - 1),
\* so no two attempts share a seed or a sample count; when no seed was given it
\* stays absent on every attempt.
C14_AttemptCountsAndSeeds ==
    /\ \A k \in 1..Len(tr.attempts) :
           /\ tr.attempts[k].n = args.raw_samples * k
           /\ tr.attempts[k].seed =
                  IF IsNone(SeedEntry) THEN None ELSE Some(Val(SeedEntry) + (k - 1))
    /\ \A k, l \in 1..Len(tr.attempts) :
           k # l =>
               /\ tr.attempts[k].n # tr.attempts[l].n
               /\ ~IsNone(SeedEntry) => tr.attempts[k].seed # tr.attempts[l].seed
    /\ pc = "gen_score" =>
           /\ gn.X_rnd.shape[1] = args.raw_samples * Len(tr.attempts)
           /\ gn.seed = tr.attempts[Len(tr.attempts)].seed

\* the third attempt of a seeded call has drawn its samples
C14_Witness ==
    /\ pc = "gen_score"
    /\ Len(tr.attempts) >= 3
    /\ ~IsNone(SeedEntry)
    /\ tr.attempts[3].seed = Some(Val(SeedEntry) + 2)
    /\ args.raw_samples >= 2

\* the batch_limit the caller's options carry, if any
BatchLimitEntry ==
    IF IsNone(tr.options_entry) THEN None ELSE Val(tr.options_entry).batch_limit

\* scorer call c continues where the call before it stopped, or opens an attempt
ScoredInOrder(c) ==
    LET this == tr.scorer_calls[c]
    IN IF this.start_idx = 0
       THEN c > 1 =>
                tr.scorer_calls[c - 1].start_idx + tr.scorer_calls[c - 1].size =
                    tr.scorer_calls[c - 1].n
       ELSE /\ c > 1
            /\ this.n = tr.scorer_calls[c - 1].n
            /\ this.start_idx =
                   tr.scorer_calls[c - 1].start_idx + tr.scorer_calls[c - 1].size

\* C15: when the options carry no batch_limit, every sampling attempt, retries
\* included, scores all of its candidates in a single scorer call; when
\* batch_limit is given, no scorer call receives more than batch_limit
\* candidates and each candidate is scored exactly once in index order.
C15_ScoringBatches ==
    InGen =>
        /\ IsNone(BatchLimitEntry) =>
               \A c \in 1..Len(tr.scorer_calls) :
                   /\ tr.scorer_calls[c].start_idx = 0
                   /\ tr.scorer_calls[c].size = tr.scorer_calls[c].n
        /\ ~IsNone(BatchLimitEntry) =>
               \A c \in 1..Len(tr.scorer_calls) :
                   /\ tr.scorer_calls[c].size <= Val(BatchLimitEntry)
                   /\ tr.scorer_calls[c].size >= 1
                   /\ ScoredInOrder(c)

ExhaustionDiagnosed ==
    \E k \in 1..Len(tr.warnings) : tr.warnings[k] = "BadInitialCandidatesWarning"

C16_State ==
    /\ tr.gen_exit = "selected" =>
           /\ ~InGen
           /\ ~tr.last_degenerate
           /\ ~ExhaustionDiagnosed
           /\ pc = "solve_while" => jt.batch_initial_conditions = tr.last_selection
    /\ InGen => tr.gen_exit = "none" /\ ~ExhaustionDiagnosed

\* the generator samples again only after a degenerate attempt, and the first
\* attempt that is not degenerate ends it with that attempt's selection
C16_Step ==
    /\ (InGen /\ pc' = "gen_while") => tr'.last_degenerate
    /\ (pc = "gen_score" /\ pc' \notin {"gen_score", "raised"}
            /\ ~tr'.last_degenerate) =>
           /\ tr'.gen_exit = "selected"
           /\ pc' = "solve_while"
           /\ jt'.batch_initial_conditions =
                  Some(init_func(gn.X_rnd, args.num_restarts))
           /\ tr'.scored = tr.scored
    /\ tr.gen_exit = "selected" =>
           /\ tr'.attempts = tr.attempts
           /\ tr'.scorer_calls = tr.scorer_calls
           /\ tr'.warnings \in {tr.warnings, <<>>}

\* C16: if attempt k is the first attempt that is not reported degenerate, the
\* generator returns that attempt's selection at once: no sampling and no scorer
\* call follows it, and the 'selected randomly' diagnostic is not emitted.
C16_FirstGoodAttemptReturns == []C16_State /\ [][C16_Step]_vars

\* a call seeded with 0 has returned the selection of a later attempt (the
\* selection starts with the point a seed of 1 draws first)
C16_Witness ==
    /\ tr.gen_exit = "selected"
    /\ pc = "solve_while"
    /\ SeedEntry = Some(0)
    /\ Val(tr.last_selection) = init_func(DrawSamples(2 * args.raw_samples, jt.q, args.d, 1),
                                           args.num_restarts)
    /\ Val(tr.last_selection) # init_func(DrawSamples(args.raw_samples, jt.q, args.d, 0),
                                           args.num_restarts)

\* the number of batches of at most b restarts that n restarts need
Ceil(n, b) == (n + b - 1) \div b

\* the restart loop of the running joint solve is over
RestartLoopOver == pc = "solve_while" /\ ~(jt.start_idx < args.num_restarts)

\* C17: for every integer batch_limit (0 and negative values included) and
\* num_restarts >= 1 the restart loop of the joint path ends after finitely many
\* solver calls, so it never comes back to a start index it has already been
\* at; for batch_limit >= 1 it makes exactly ceil(num_restarts / batch_limit)
\* calls, each on at most batch_limit restarts, which cover the restart indices
\* 0..num_restarts-1 exactly once in increasing order.
C17_RestartLoopTerminates ==
    pc = "solve_while" =>
        /\ \A c, e \in 1..Len(tr.solver_calls) :
               c # e => tr.solver_calls[c].start_idx # tr.solver_calls[e].start_idx
        /\ jt.batch_limit >= 1 =>
               /\ Len(tr.solver_calls) <= Ceil(args.num_restarts, jt.batch_limit)
               /\ RestartLoopOver =>
                      /\ Len(tr.solver_calls) = Ceil(args.num_restarts, jt.batch_limit)
                      /\ tr.solver_calls[Len(tr.solver_calls)].end_idx = args.num_restarts
               /\ \A c \in 1..Len(tr.solver_calls) :
                      /\ tr.solver_calls[c].start_idx =
                             IF c = 1 THEN 0 ELSE tr.solver_calls[c - 1].end_idx
                      /\ tr.solver_calls[c].end_idx > tr.solver_calls[c].start_idx
                      /\ tr.solver_calls[c].end_idx - tr.solver_calls[c].start_idx
                             <= jt.batch_limit
                      /\ tr.solver_calls[c].initial_conditions.shape[1]
                             <= jt.batch_limit

\* the restart rows the solver calls of the running joint solve were given
RowsSolved ==
    Flatten([c \in 1..Len(tr.solver_calls) |->
                 tr.solver_calls[c].initial_conditions.data])

\* C18: in joint mode with caller-supplied batch_initial_conditions the
\* initialization heuristic is not run (no sampling, no scorer evaluation for
\* seeding) and every supplied restart row is passed to the solver exactly
\* once, in index order, whatever num_restarts is (smaller than, equal to, or
\* larger than the number of supplied rows).
C18_EverySuppliedRowSolved ==
    (~args.sequential /\ ~IsNone(args.batch_initial_conditions)) =>
        /\ ~InGen
        /\ ~tr.scored
        /\ tr.attempts = <<>>
        /\ pc = "solve_while" =>
               /\ jt.batch_initial_conditions = args.batch_initial_conditions
               /\ \E k \in 0..Len(Val(args.batch_initial_conditions).data) :
                      RowsSolved = SubSeq(Val(args.batch_initial_conditions).data, 1, k)
        /\ RestartLoopOver => RowsSolved = Val(args.batch_initial_conditions).data

\* C19: a joint-mode call never overwrites the pending points of the
\* acquisition function: every scorer evaluation and every solver call sees the
\* value at entry, and so does the caller after the call, returned or raised.
C19_JointLeavesPending ==
    ~args.sequential =>
        /\ acq_function.X_pending = tr.X_pending_entry
        /\ \A c \in 1..Len(tr.scorer_calls) :
               tr.scorer_calls[c].X_pending = tr.X_pending_entry
        /\ \A c \in 1..Len(tr.solver_calls) :
               tr.solver_calls[c].X_pending = tr.X_pending_entry

\* a joint call over q >= 2 that generated its initial conditions has returned,
\* pending points having been set at entry
C19_Witness ==
    /\ ~args.sequential
    /\ pc = "done"
    /\ args.q >= 2
    /\ tr.scored
    /\ Len(tr.solver_calls) >= 2
    /\ ~IsNone(tr.X_pending_entry)
    /\ acq_function.X_pending = tr.X_pending_entry

====
